---- MODULE Spec2Model ----
(***************************************************************************)
(* Booking records and the admin ledger of the trip-price application:     *)
(* BookingService (src/services/booking_service.py) over DatabaseService   *)
(* (src/services/database_service.py).  Every DatabaseService method opens *)
(* its own SQLite connection and commits before it returns, so each method *)
(* is one atomic step on the stored tables, and a BookingService method is *)
(* a sequence of such steps that other sessions may interleave with.       *)
(*                                                                         *)
(* Money is counted in whole rupees.  A text is a sequence of tokens, so   *)
(* that building a route key is a concatenation.  average_fare, a float    *)
(* quotient in the code, is the pair <<numerator, denominator>> it was     *)
(* computed from.                                                          *)
(***************************************************************************)
EXTENDS Integers, Sequences, FiniteSets, TLC

\* ---------------------------------------------------------------- bounds
\* select_route calls that may be started in one behaviour.
MaxConfirms == 2
\* Route keys in a ledger handed to the analytics (SpecAnalytics).
MaxRoutes == 6

\* ---------------------------------------------------------------- inputs
\* Sessions that create, confirm and cancel bookings.
Clients == {"c1", "c2"}
\* Sessions that read the dashboard and the analytics.
Readers == {"r1"}
Procs == Clients \cup Readers

\* Python's None where a text stands, the empty dictionary where a dictionary
\* stands (json.dumps({}) is stored for a booking without pricing, and a row
\* that was not found or not read yet is the empty record).
None == "None"
Empty == << >>

Trips ==
    { [origin |-> <<"A">>, destination |-> <<"B">>],
      [origin |-> <<"B">>, destination |-> <<"A">>] }

\* What a caller hands to select_route: a route of the suggestion and the
\* pricing computed for it.
Offers ==
    { [route_id |-> "route_1",
       pricing |-> [final_fare |-> 100, driver_earnings |-> 75, company_profit |-> 25]],
      [route_id |-> "route_2",
       pricing |-> [final_fare |-> 200, driver_earnings |-> 150, company_profit |-> 50]] }

\* The readings of the wall clock, to the second.
Seconds == {0, 1}
\* Booking ids: "BK" followed by the clock reading, to the second.
BookingIds == Seconds

TopRoutes == 5
RecentLimit == 10

VARIABLES
    now,         \* the wall clock, in seconds
    bookings,    \* table bookings: id -> row
    admin_data,  \* table admin_data: the sequence of its rows
    pc,          \* where each session is in the call it is making
    call,        \* the local variables of that call
    ret,         \* what the step just taken handed back to its caller
    confirms,    \* select_route calls started so far
    seen         \* history: the stored views during a dashboard read

vars == <<now, bookings, admin_data, pc, call, ret, confirms, seen>>

NoCall == [op |-> "none"]
\* What a step hands back: nothing (the call goes on), a returned value, or an
\* exception.
NoResult == [proc |-> None, op |-> "none", status |-> "none", value |-> None]

\* ------------------------------------------------------- DatabaseService

\* The columns of the two tables that some modelled operation reads.  The
\* timestamps (created_at, confirmed_at, cancelled_at, updated_at) carry
\* microseconds and serve only to order rows; see get_admin_data and
\* get_recent_bookings.
ZeroRow ==
    [ total_bookings |-> 0, total_revenue |-> 0, total_driver_earnings |-> 0,
      total_company_profit |-> 0, route_statistics |-> << >> ]

\* A start that writes the zero row whatever the table holds.
create_tables_Reset(rows) == <<ZeroRow>>

\* _create_tables: the tables are kept; the ledger row is inserted only when
\* the table holds none.
create_tables(rows) ==
    IF Len(rows) = 0 THEN <<ZeroRow>> ELSE rows

DefaultAdminData ==
    [ total_bookings |-> 0, total_revenue |-> 0, total_driver_earnings |-> 0,
      total_company_profit |-> 0, route_statistics |-> << >> ]

\* SELECT * FROM admin_data ORDER BY updated_at DESC LIMIT 1, else the default.
\* Rows are only ever inserted by _create_tables into an empty table, so the
\* table holds one row and the ORDER BY has nothing to order.
get_admin_data(rows) ==
    IF Len(rows) > 0 THEN rows[1] ELSE DefaultAdminData

\* UPDATE admin_data SET ... (no WHERE: every row).
update_admin_data_rows(rows, updates) ==
    [i \in DOMAIN rows |-> [k \in DOMAIN rows[i] |->
        IF k \in DOMAIN updates THEN updates[k] ELSE rows[i][k]]]

\* The value update_admin_data returns: rowcount > 0.
update_admin_data_ok(rows) == Len(rows) > 0

get_booking_by_id(tbl, id) ==
    IF id \in DOMAIN tbl THEN tbl[id] ELSE Empty

\* UPDATE bookings SET ... WHERE id = ?
update_booking_rows(tbl, id, updates) ==
    [b \in DOMAIN tbl |->
        IF b = id
        THEN [k \in DOMAIN tbl[b] |->
                 IF k \in DOMAIN updates THEN updates[k] ELSE tbl[b][k]]
        ELSE tbl[b]]

\* rowcount >= 0 in place of rowcount > 0.
update_booking_ok_Always(tbl, id) == TRUE

update_booking_ok(tbl, id) == id \in DOMAIN tbl

\* SELECT ... WHERE status = 'confirmed' ORDER BY confirmed_at DESC LIMIT ?:
\* the confirmed bookings (every booking belongs to a registered user, so the
\* JOIN drops none).  Which rows a LIMIT smaller than their number keeps is
\* decided by confirmed_at; it is left open here, as some `limit` of them.
get_recent_bookings(tbl, limit) ==
    LET confirmed == { b \in DOMAIN tbl : tbl[b].status = "confirmed" }
    IN  IF Cardinality(confirmed) <= limit THEN confirmed
        ELSE CHOOSE kept \in SUBSET confirmed : Cardinality(kept) = limit

get_pending_bookings_count(tbl) ==
    Cardinality({ b \in DOMAIN tbl : tbl[b].status = "pending" })

\* -------------------------------------------------------- BookingService

route_key(booking) == booking.origin \o <<"_to_">> \o booking.destination

HasKey(route_stats, key) == \E i \in DOMAIN route_stats : route_stats[i].key = key

\* The average taken before the fare is added to the entry's revenue.
record_route_StaleAverage(route_stats, key, final_fare) ==
    LET present ==
            IF HasKey(route_stats, key) THEN route_stats
            ELSE Append(route_stats,
                        [ key |-> key, total_bookings |-> 0, total_revenue |-> 0,
                          average_fare |-> <<0, 1>> ])
    IN  [i \in DOMAIN present |->
            IF present[i].key = key
            THEN [ key |-> key,
                   total_bookings |-> present[i].total_bookings + 1,
                   total_revenue |-> present[i].total_revenue + final_fare,
                   average_fare |-> << present[i].total_revenue,
                                       present[i].total_bookings + 1 >> ]
            ELSE present[i]]

\* route_stats[route_key], created at zero when absent, then counted.  The
\* dictionary keeps the order in which its keys were inserted.
record_route(route_stats, key, final_fare) ==
    LET present ==
            IF HasKey(route_stats, key) THEN route_stats
            ELSE Append(route_stats,
                        [ key |-> key, total_bookings |-> 0, total_revenue |-> 0,
                          average_fare |-> <<0, 1>> ])
    IN  [i \in DOMAIN present |->
            IF present[i].key = key
            THEN [ key |-> key,
                   total_bookings |-> present[i].total_bookings + 1,
                   total_revenue |-> present[i].total_revenue + final_fare,
                   average_fare |-> << present[i].total_revenue + final_fare,
                                       present[i].total_bookings + 1 >> ]
            ELSE present[i]]

\* The company's share added to the drivers' total.
admin_updates_SharesMixed(admin, booking, pricing) ==
    [ total_bookings |-> admin.total_bookings + 1,
      total_revenue |-> admin.total_revenue + pricing.final_fare,
      total_driver_earnings |-> admin.total_driver_earnings + pricing.company_profit,
      total_company_profit |-> admin.total_company_profit + pricing.company_profit,
      route_statistics |->
          record_route(admin.route_statistics, route_key(booking), pricing.final_fare) ]

\* The totals counted and the route statistics written back as read.
admin_updates_TotalsOnly(admin, booking, pricing) ==
    [ total_bookings |-> admin.total_bookings + 1,
      total_revenue |-> admin.total_revenue + pricing.final_fare,
      total_driver_earnings |-> admin.total_driver_earnings + pricing.driver_earnings,
      total_company_profit |-> admin.total_company_profit + pricing.company_profit,
      route_statistics |-> admin.route_statistics ]

\* admin_updates of select_route, from the ledger it read.
admin_updates(admin, booking, pricing) ==
    [ total_bookings |-> admin.total_bookings + 1,
      total_revenue |-> admin.total_revenue + pricing.final_fare,
      total_driver_earnings |-> admin.total_driver_earnings + pricing.driver_earnings,
      total_company_profit |-> admin.total_company_profit + pricing.company_profit,
      route_statistics |->
          record_route(admin.route_statistics, route_key(booking), pricing.final_fare) ]

\* An ascending sort reversed afterwards: entries of equal revenue come out
\* in the reverse of their order in the dictionary.
RECURSIVE sorted_by_revenue_Reversed(_)
sorted_by_revenue_Reversed(items) ==
    IF Len(items) = 0 THEN << >>
    ELSE LET rest == sorted_by_revenue_Reversed(SubSeq(items, 1, Len(items) - 1))
             x == items[Len(items)]
             ahead == { i \in DOMAIN rest : rest[i].total_revenue > x.total_revenue }
             n == Cardinality(ahead)
         IN  SubSeq(rest, 1, n) \o <<x>> \o SubSeq(rest, n + 1, Len(rest))

\* sorted(items, key = total_revenue, reverse = True): a stable sort, entries
\* of equal revenue keep the order they have in the dictionary.
RECURSIVE sorted_by_revenue(_)
sorted_by_revenue(items) ==
    IF Len(items) = 0 THEN << >>
    ELSE LET rest == sorted_by_revenue(SubSeq(items, 1, Len(items) - 1))
             x == items[Len(items)]
             ahead == { i \in DOMAIN rest : rest[i].total_revenue >= x.total_revenue }
             n == Cardinality(ahead)
         IN  SubSeq(rest, 1, n) \o <<x>> \o SubSeq(rest, n + 1, Len(rest))

FirstN(s, n) == SubSeq(s, 1, IF Len(s) < n THEN Len(s) ELSE n)

\* The stored state as one dashboard read would return it at this instant.
View(tbl, rows) ==
    [ summary |-> get_admin_data(rows),
      recent_bookings |-> get_recent_bookings(tbl, RecentLimit),
      total_pending_bookings |-> get_pending_bookings_count(tbl) ]

InSelect(p) == call[p].op = "select_route"
InDash(p) == call[p].op = "dashboard"

\* History kept for the dashboard reads in progress: every stored view since
\* the read began, kept until the read's value has been handed back.
Track ==
    seen' = [r \in Readers |->
                IF call'[r].op = "dashboard"
                THEN seen[r] \cup {View(bookings', admin_data')}
                ELSE IF ret'.proc = r THEN seen[r]
                ELSE {}]

Running == ret' = NoResult
Ret(p, op, value) ==
    ret' = [proc |-> p, op |-> op, status |-> "returned", value |-> value]
Raise(p, op) ==
    ret' = [proc |-> p, op |-> op, status |-> "raised", value |-> None]
Returned(res, op) == res.op = op /\ res.status = "returned"

\* No return value is on its way to a caller.
Ready == ret.status = "none"

\* The caller takes the value handed back.  It does so before any session's
\* next step: no step reads `ret`, so the order of the two is immaterial.
Return ==
    /\ ~Ready
    /\ ret' = NoResult
    /\ seen' = [r \in Readers |-> IF InDash(r) THEN seen[r] ELSE {}]
    /\ UNCHANGED <<now, bookings, admin_data, pc, call, confirms>>

Init ==
    /\ now = 0
    /\ bookings = << >>
    /\ admin_data = create_tables(<< >>)
    /\ pc = [p \in Procs |-> "idle"]
    /\ call = [p \in Procs |-> NoCall]
    /\ ret = NoResult
    /\ confirms = 0
    /\ seen = [r \in Readers |-> {}]

Tick ==
    /\ Ready
    /\ now + 1 \in Seconds
    /\ now' = now + 1
    /\ Running
    /\ UNCHANGED <<bookings, admin_data, pc, call, confirms, seen>>


\* create_booking: the id is the clock reading; the INSERT raises when a row
\* of that id exists (id is the primary key).
CreateBooking(p, trip) ==
    /\ Ready
    /\ pc[p] = "idle"
    /\ LET booking ==
               [ id |-> now, origin |-> trip.origin, destination |-> trip.destination,
                 status |-> "pending", selected_route_id |-> None, pricing |-> Empty ]
       IN  IF now \in DOMAIN bookings
           THEN /\ bookings' = bookings
                /\ Raise(p, "create_booking")
           ELSE /\ bookings' = bookings @@ (now :> booking)
                /\ Ret(p, "create_booking", now)
    /\ UNCHANGED <<now, admin_data, pc, call, confirms>>
    /\ Track

\* cancel_booking: one UPDATE, True when it changed a row.
CancelBooking(p, booking_id) ==
    /\ Ready
    /\ pc[p] = "idle"
    /\ bookings' = update_booking_rows(bookings, booking_id,
                       [status |-> "cancelled"])
    /\ Ret(p, "cancel_booking", update_booking_ok(bookings, booking_id))
    /\ UNCHANGED <<now, admin_data, pc, call, confirms>>
    /\ Track

\* select_route, lines 52-54: get_booking, False when there is none.
SelectRouteGetBooking(p, booking_id, offer) ==
    /\ Ready
    /\ pc[p] = "idle"
    /\ confirms < MaxConfirms
    /\ confirms' = confirms + 1
    /\ LET booking == get_booking_by_id(bookings, booking_id)
           others == \E q \in Clients \ {p} : InSelect(q)
       IN  IF booking = Empty
           THEN /\ Ret(p, "select_route", FALSE)
                /\ UNCHANGED <<pc, call>>
           ELSE /\ pc' = [pc EXCEPT ![p] = "update_booking"]
                /\ call' = [q \in Procs |->
                       IF q = p
                       THEN [ op |-> "select_route", booking_id |-> booking_id,
                              route_id |-> offer.route_id, pricing |-> offer.pricing,
                              booking |-> booking, admin_data |-> Empty,
                              before |-> IF others THEN Empty
                                         ELSE get_admin_data(admin_data),
                              overlap |-> others ]
                       ELSE IF InSelect(q)
                            THEN [call[q] EXCEPT !.overlap = TRUE, !.before = Empty]
                       ELSE call[q]]
                /\ Running
    /\ UNCHANGED <<now, bookings, admin_data>>
    /\ Track

\* select_route, lines 57-66: the booking is marked confirmed.
SelectRouteUpdateBooking(p) ==
    /\ Ready
    /\ pc[p] = "update_booking"
    /\ LET updates ==
               [ selected_route_id |-> call[p].route_id, status |-> "confirmed",
                 pricing |-> call[p].pricing ]
           success == update_booking_ok(bookings, call[p].booking_id)
       IN  /\ bookings' = update_booking_rows(bookings, call[p].booking_id, updates)
           /\ IF success
              THEN /\ pc' = [pc EXCEPT ![p] = "get_admin_data"]
                   /\ UNCHANGED call
                   /\ Running
              ELSE /\ pc' = [pc EXCEPT ![p] = "idle"]
                   /\ call' = [call EXCEPT ![p] = NoCall]
                   /\ Ret(p, "select_route", FALSE)
    /\ UNCHANGED <<now, admin_data, confirms>>
    /\ Track

\* select_route, line 69: the ledger is read.
SelectRouteGetAdminData(p) ==
    /\ Ready
    /\ pc[p] = "get_admin_data"
    /\ pc' = [pc EXCEPT ![p] = "update_admin_data"]
    /\ call' = [call EXCEPT ![p].admin_data = get_admin_data(admin_data)]
    /\ Running
    /\ UNCHANGED <<now, bookings, admin_data, confirms, seen>>

\* The ledger write committed before the failure is raised.
SelectRouteUpdateAdminData_WriteThenRaise(p, storage_ok) ==
    /\ Ready
    /\ pc[p] = "update_admin_data"
    /\ LET updates == admin_updates(call[p].admin_data, call[p].booking, call[p].pricing)
       IN  /\ admin_data' = update_admin_data_rows(admin_data, updates)
           /\ IF storage_ok
              THEN Ret(p, "select_route", TRUE)
              ELSE Raise(p, "select_route")
    /\ pc' = [pc EXCEPT ![p] = "idle"]
    /\ call' = [call EXCEPT ![p] = NoCall]
    /\ UNCHANGED <<now, bookings, confirms>>
    /\ Track

\* select_route, lines 71-110: the new totals are computed from the ledger
\* read and written back; the return value of update_admin_data is not
\* looked at.  When the storage fails the statement is rolled back and the
\* exception leaves select_route.
SelectRouteUpdateAdminData(p, storage_ok) ==
    /\ Ready
    /\ pc[p] = "update_admin_data"
    /\ LET updates == admin_updates(call[p].admin_data, call[p].booking, call[p].pricing)
       IN  IF storage_ok
           THEN /\ admin_data' = update_admin_data_rows(admin_data, updates)
                /\ Ret(p, "select_route", TRUE)
           ELSE /\ admin_data' = admin_data
                /\ Raise(p, "select_route")
    /\ pc' = [pc EXCEPT ![p] = "idle"]
    /\ call' = [call EXCEPT ![p] = NoCall]
    /\ UNCHANGED <<now, bookings, confirms>>
    /\ Track

\* get_admin_dashboard_data, line 122.
DashboardRecentBookings(r) ==
    /\ Ready
    /\ pc[r] = "idle"
    /\ pc' = [pc EXCEPT ![r] = "dash_admin_data"]
    /\ call' = [call EXCEPT ![r] =
                   [ op |-> "dashboard",
                     recent_bookings |-> get_recent_bookings(bookings, RecentLimit),
                     admin_data |-> Empty ]]
    /\ Running
    /\ UNCHANGED <<now, bookings, admin_data, confirms>>
    /\ Track

\* get_admin_dashboard_data, line 123.
DashboardAdminData(r) ==
    /\ Ready
    /\ pc[r] = "dash_admin_data"
    /\ pc' = [pc EXCEPT ![r] = "dash_pending_count"]
    /\ call' = [call EXCEPT ![r].admin_data = get_admin_data(admin_data)]
    /\ Running
    /\ UNCHANGED <<now, bookings, admin_data, confirms, seen>>

\* get_admin_dashboard_data, lines 124-130.
DashboardPendingCount(r) ==
    /\ Ready
    /\ pc[r] = "dash_pending_count"
    /\ pc' = [pc EXCEPT ![r] = "idle"]
    /\ call' = [call EXCEPT ![r] = NoCall]
    /\ Ret(r, "dashboard",
           [ summary |-> call[r].admin_data,
             recent_bookings |-> call[r].recent_bookings,
             total_pending_bookings |-> get_pending_bookings_count(bookings) ])
    /\ UNCHANGED <<now, bookings, admin_data, confirms>>
    /\ Track

\* The sorted entries written back to the ledger row.
RouteAnalytics_WritesBack(r) ==
    /\ Ready
    /\ pc[r] = "idle"
    /\ LET route_stats == get_admin_data(admin_data).route_statistics
       IN  /\ Ret(r, "analytics",
                  [ top_routes |-> FirstN(sorted_by_revenue(route_stats), TopRoutes),
                    all_routes |-> route_stats ])
           /\ admin_data' = update_admin_data_rows(admin_data,
                  [route_statistics |-> sorted_by_revenue(route_stats)])
    /\ UNCHANGED <<now, bookings, pc, call, confirms, seen>>

\* get_route_analytics: one read, then the sort.
RouteAnalytics(r) ==
    /\ Ready
    /\ pc[r] = "idle"
    /\ LET route_stats == get_admin_data(admin_data).route_statistics
       IN  Ret(r, "analytics",
               [ top_routes |-> FirstN(sorted_by_revenue(route_stats), TopRoutes),
                 all_routes |-> route_stats ])
    /\ UNCHANGED <<now, bookings, admin_data, pc, call, confirms, seen>>

\* The process stops at any point and is started again: the calls in progress
\* are gone, DatabaseService() runs _create_tables on the stored tables.
Restart ==
    /\ Ready
    /\ admin_data' = create_tables(admin_data)
    /\ pc' = [p \in Procs |-> "idle"]
    /\ call' = [p \in Procs |-> NoCall]
    /\ ret' = [proc |-> None, op |-> "restart", status |-> "returned", value |-> None]
    /\ seen' = [r \in Readers |-> {}]
    /\ UNCHANGED <<now, bookings, confirms>>

\* One step of a session that books, and one of a session that reads.
ClientStep(p) ==
    \/ \E trip \in Trips : CreateBooking(p, trip)
    \/ \E b \in BookingIds : CancelBooking(p, b)
    \/ \E b \in BookingIds, offer \in Offers : SelectRouteGetBooking(p, b, offer)
    \/ SelectRouteUpdateBooking(p)
    \/ SelectRouteGetAdminData(p)
    \/ \E storage_ok \in BOOLEAN : SelectRouteUpdateAdminData(p, storage_ok)

ReaderStep(r) ==
    \/ DashboardRecentBookings(r)
    \/ DashboardAdminData(r)
    \/ DashboardPendingCount(r)
    \/ RouteAnalytics(r)

\* Sessions booking concurrently.
Next ==
    \/ Tick
    \/ \E p \in Clients : ClientStep(p)
    \/ Restart
    \/ Return

Spec == Init /\ [][Next]_vars

\* One session booking while another reads.
NextRead ==
    \/ Tick
    \/ ClientStep("c1")
    \/ \E r \in Readers : ReaderStep(r)
    \/ Restart
    \/ Return

SpecRead == Init /\ [][NextRead]_vars

\* The analytics over ledgers of up to MaxRoutes route keys: more keys than
\* top_routes keeps.  The i-th key inserted is "Ax..x_to_B" with i letters x;
\* an entry is one booking of 100 or 200, or two bookings of 300 in all.
AnalyticsKey(i) == <<"A">> \o [j \in 1..i |-> "x"] \o <<"_to_", "B">>

EntryKinds ==
    { [total_bookings |-> 1, total_revenue |-> 100],
      [total_bookings |-> 1, total_revenue |-> 200],
      [total_bookings |-> 2, total_revenue |-> 300] }

RECURSIVE SumOver(_, _, _)
SumOver(f, n, field) == IF n = 0 THEN 0 ELSE f[n][field] + SumOver(f, n - 1, field)

AnalyticsLedger(n, f) ==
    [ total_bookings |-> SumOver(f, n, "total_bookings"),
      total_revenue |-> SumOver(f, n, "total_revenue"),
      total_driver_earnings |-> (SumOver(f, n, "total_revenue") * 3) \div 4,
      total_company_profit |-> SumOver(f, n, "total_revenue") \div 4,
      route_statistics |->
          [i \in 1..n |->
              [ key |-> AnalyticsKey(i),
                total_bookings |-> f[i].total_bookings,
                total_revenue |-> f[i].total_revenue,
                average_fare |-> <<f[i].total_revenue, f[i].total_bookings>> ]] ]

InitAnalytics ==
    /\ now = 0
    /\ bookings = << >>
    /\ \E n \in 0..MaxRoutes : \E f \in [1..n -> EntryKinds] :
           admin_data = <<AnalyticsLedger(n, f)>>
    /\ pc = [p \in Procs |-> "idle"]
    /\ call = [p \in Procs |-> NoCall]
    /\ ret = NoResult
    /\ confirms = 0
    /\ seen = [r \in Readers |-> {}]

NextAnalytics ==
    \/ \E r \in Readers : RouteAnalytics(r)
    \/ Return

SpecAnalytics == InitAnalytics /\ [][NextAnalytics]_vars

\* ---------------------------------------------------------- RouteService
\* src/services/route_service.py.  Its numbers are floats; the model keeps
\* them as integers of a fixed unit: a distance handed to the pricing in
\* tenths of a km, a multiplier in tenths, a tariff in whole rupees, a
\* returned amount in paise (hundredths of a rupee).

\* dict.get(key, default).
get(d, key, default) == IF key \in DOMAIN d THEN d[key] ELSE default

\* Python's round() of the quotient num / den to an integer of the result's
\* unit.  The float that is rounded carries a representation error far below
\* the units used here, so a value off a half is rounded to the nearest, and
\* a value that is a half in decimal goes either way (103.275 is stored as a
\* float just above or just below it).
round(num, den) ==
    LET q == num \div den
        r == num % den
    IN  IF 2 * r < den THEN {q}
        ELSE IF 2 * r > den THEN {q + 1}
        ELSE {q, q + 1}

\* config.VEHICLE_TYPES: the tariff of each vehicle type, in rupees.
VEHICLE_TYPES ==
    [ sedan |-> [base_rate_per_km |-> 10, base_fare |-> 50],
      auto  |-> [base_rate_per_km |-> 9,  base_fare |-> 40],
      bike  |-> [base_rate_per_km |-> 7,  base_fare |-> 25] ]

\* The routes handed to the pricing: distance_km in tenths of a km.
PricedRoutes ==
    { [id |-> "route_1", distance_km |-> 1],
      [id |-> "route_1", distance_km |-> 3],
      [id |-> "route_1", distance_km |-> 7],
      [id |-> "route_1", distance_km |-> 200],
      [id |-> "route_2", distance_km |-> 26],
      [id |-> "route_2", distance_km |-> 143] }

\* The conditions handed to the pricing: what AIService produces (multipliers
\* in tenths), and a dictionary without multipliers.
Conditions ==
    { [weather_multiplier |-> w, traffic_multiplier |-> t] :
          w \in {10, 12, 13, 15, 18}, t \in {10, 14, 18, 22} }
    \cup { Empty }

\* base_cost, in tenths of a rupee.
base_cost(vehicle_config, route) ==
    vehicle_config.base_fare * 10 + route.distance_km * vehicle_config.base_rate_per_km

final_fare_Additive(cost, conditions) ==
    cost * 10 * (get(conditions, "weather_multiplier", 10)
                   + get(conditions, "traffic_multiplier", 10) - 10)

\* final_fare before rounding, in thousandths of a rupee.
final_fare(cost, conditions) ==
    cost * get(conditions, "weather_multiplier", 10)
         * get(conditions, "traffic_multiplier", 10)

revenue_split_Short(fare) ==
    { [driver_earnings |-> d, company_profit |-> c] :
          d \in round(fare * 75, 1000), c \in round(fare * 20, 1000) }

\* driver_earnings and company_profit as returned, in paise: 75% and 25% of
\* the fare before rounding, each rounded to 2 decimals.
revenue_split(fare) ==
    { [driver_earnings |-> d, company_profit |-> c] :
          d \in round(fare * 75, 1000), c \in round(fare * 25, 1000) }

\* calculate_route_pricing: the pricing breakdowns it can return.
calculate_route_pricing(route, vehicle_type, conditions) ==
    LET vehicle_config == VEHICLE_TYPES[vehicle_type]
        cost == base_cost(vehicle_config, route)
        weather_multiplier == get(conditions, "weather_multiplier", 10)
        traffic_multiplier == get(conditions, "traffic_multiplier", 10)
        fare == final_fare(cost, conditions)
    IN  { [ base_cost |-> bc,
            weather_multiplier |-> weather_multiplier,
            traffic_multiplier |-> traffic_multiplier,
            final_fare |-> ff,
            driver_earnings |-> split.driver_earnings,
            company_profit |-> split.company_profit,
            breakdown |->
                [ base_fare |-> vehicle_config.base_fare,
                  distance_cost |-> dc,
                  weather_adjustment |-> wa,
                  traffic_adjustment |-> ta ] ] :
          bc \in round(cost * 10, 1),
          ff \in round(fare, 10),
          split \in revenue_split(fare),
          dc \in round(route.distance_km * vehicle_config.base_rate_per_km * 10, 1),
          wa \in round(cost * (weather_multiplier - 10), 1),
          ta \in round(cost * weather_multiplier * (traffic_multiplier - 10), 10) }

\* A session prices one route of a suggestion.
CalculateRoutePricing(p, route, vehicle_type, conditions) ==
    /\ Ready
    /\ pc[p] = "idle"
    /\ \E pricing \in calculate_route_pricing(route, vehicle_type, conditions) :
           Ret(p, "calculate_route_pricing", pricing)
    /\ UNCHANGED <<now, bookings, admin_data, pc, call, confirms>>
    /\ Track

NextPricing ==
    \/ \E p \in Clients, route \in PricedRoutes,
          vehicle_type \in DOMAIN VEHICLE_TYPES, conditions \in Conditions :
           CalculateRoutePricing(p, route, vehicle_type, conditions)
    \/ Return

SpecPricing == Init /\ [][NextPricing]_vars

\* ---- texts
\* A location text is a sequence of words, the comma being a word of its own;
\* `sub in text` is the occurrence of the words of sub, in a row, in text.
LowerCase ==
    [ Mumbai |-> "mumbai", Delhi |-> "delhi", Bangalore |-> "bangalore",
      Pune |-> "pune", Gurgaon |-> "gurgaon", Chennai |-> "chennai",
      Ahmedabad |-> "ahmedabad", Jaipur |-> "jaipur", Hyderabad |-> "hyderabad",
      Nashik |-> "nashik", Noida |-> "noida", Thane |-> "thane",
      Mysore |-> "mysore", Coimbatore |-> "coimbatore", Kolkata |-> "kolkata",
      Howrah |-> "howrah", Kankaria |-> "kankaria", Maninagar |-> "maninagar",
      Paldi |-> "paldi", Andheri |-> "andheri", Road |-> "road",
      Station |-> "station", Surat |-> "surat", SURAT |-> "surat",
      Ring |-> "ring", Village |-> "village", India |-> "india",
      Gujarat |-> "gujarat", Heavy |-> "heavy", Light |-> "light",
      Fog |-> "fog" ]

\* The lower case of a word: of a word written with capitals as listed, of
\* any other word the word itself.
Lower(word) == IF word \in DOMAIN LowerCase THEN LowerCase[word] ELSE word

\* str.lower().
lower(text) == [i \in DOMAIN text |-> Lower(text[i])]

\* sub in text.
Contains(sub, text) ==
    \E i \in 0..(Len(text) - Len(sub)) : SubSeq(text, i + 1, i + Len(sub)) = sub

Max(S) == CHOOSE x \in S : \A y \in S : y <= x
Min(S) == CHOOSE x \in S : \A y \in S : x <= y

\* The location texts typed by the users.
Places ==
    { <<"Mumbai">>, <<"Delhi">>, <<"kankaria">>, <<"Maninagar">>,
      <<"Paldi", ",", "Ahmedabad">>, <<"Kankaria", ",", "Ahmedabad">>,
      <<"Andheri", ",", "Mumbai">>, <<"Pune", "Road", ",", "Mumbai">>,
      <<"Station", "Road", ",", "Surat">>, <<"Ring", "Road", ",", "SURAT">>,
      <<"Village">> }

\* _extract_city_name: the text after the last comma, else the whole text.
_extract_city_name(location) ==
    LET commas == { i \in DOMAIN location : location[i] = "," }
    IN  IF commas # {}
        THEN SubSeq(location, Max(commas) + 1, Len(location))
        ELSE location

same_city(origin, destination) ==
    lower(_extract_city_name(origin)) = lower(_extract_city_name(destination))

\* ---- coordinates
\* A coordinate is <<latitude, longitude>> in 1/10000 of a degree; None is the
\* empty tuple.
NoCoords == << >>

\* What the geocoding provider may locate a text at: three points on one
\* meridian, 0.6 km, 79.4 km and 80 km apart, and a latitude that is none.
Coordinates ==
    { <<230000, 725000>>, <<230054, 725000>>, <<237226, 725000>>, <<910000, 725000>> }

ValidLatitude == 900000

RECURSIVE isqrt(_, _, _)
isqrt(n, lo, hi) ==
    IF lo >= hi THEN lo
    ELSE LET mid == (lo + hi + 1) \div 2
         IN  IF mid * mid <= n THEN isqrt(n, mid, hi) ELSE isqrt(n, lo, mid - 1)

Abs(x) == IF x < 0 THEN -x ELSE x

\* geodesic(a, b).kilometers, in hundredths of a km, for two valid points: the
\* distance on the plane tangent at latitude 23 N, where 1/10000 of a degree
\* is 11.07 m of latitude and 10.25 m of longitude.
geodesic(a, b) ==
    LET dy == (Abs(a[1] - b[1]) * 1107) \div 1000
        dx == (Abs(a[2] - b[2]) * 1025) \div 1000
    IN  isqrt(dy * dy + dx * dx, 0, 46000)

\* geodesic() raises ValueError for a latitude outside [-90, 90].
geodesic_raises(a, b) == Abs(a[1]) > ValidLatitude \/ Abs(b[1]) > ValidLatitude

\* ---- _geocode_location
\* What the provider does with one lookup: it locates the text, finds
\* nothing, or fails (error or timeout).
Answers ==
    { [kind |-> "none", at |-> NoCoords], [kind |-> "raise", at |-> NoCoords] }
    \cup { [kind |-> "hit", at |-> c] : c \in Coordinates }

\* The provider's answers to the lookups of one _geocode_location call, by
\* tier: "{text}, India", the bare text, "{text}, Gujarat, India".  A tier
\* after one that located the text or failed is never asked, and is left at
\* "none".
Geocodes ==
    { g \in [1..3 -> Answers] :
          \A i \in 1..2 : g[i].kind # "none" => \A j \in (i + 1)..3 : g[j].kind = "none" }

\* The answers in which the first lookup decides, or no lookup finds anything.
Resolutions == { g \in Geocodes : g[2].kind = "none" /\ g[3].kind = "none" }

ahmedabad_coordinates ==
    << [area |-> <<"kankaria">>,     coords |-> <<230081, 726027>>],
       [area |-> <<"paldi">>,        coords |-> <<230225, 725714>>],
       [area |-> <<"maninagar">>,    coords |-> <<230125, 726125>>],
       [area |-> <<"vadaj">>,        coords |-> <<230800, 725800>>],
       [area |-> <<"bapunagar">>,    coords |-> <<230400, 726200>>],
       [area |-> <<"navrangpura">>,  coords |-> <<230300, 725600>>],
       [area |-> <<"cg", "road">>,   coords |-> <<230300, 725600>>],
       [area |-> <<"sabarmati">>,    coords |-> <<230800, 725800>>],
       [area |-> <<"pushpakunj">>,   coords |-> <<230081, 726027>>],
       [area |-> <<"shivalik">>,     coords |-> <<230225, 725714>>],
       [area |-> <<"shivalik", "v">>, coords |-> <<230225, 725714>>] >>

\* _get_ahmedabad_coordinates: the first area of the table that occurs in the
\* text, else the city centre.
_get_ahmedabad_coordinates(location) ==
    LET hits == { i \in DOMAIN ahmedabad_coordinates :
                      Contains(ahmedabad_coordinates[i].area, lower(location)) }
    IN  IF hits # {} THEN ahmedabad_coordinates[Min(hits)].coords
        ELSE <<230225, 725714>>

\* The frame of a _geocode_location call that made its first n lookups: the
\* value returned (None when raised), the lookups made at the provider in
\* order with the answer to each, and whether the area table was consulted.
geocoded(location, geocode, n, value, table, raised) ==
    [ value |-> value, raised |-> raised,
      lookups |-> SubSeq(<< location \o <<",", "India">>,
                            location,
                            location \o <<",", "Gujarat", ",", "India">> >>, 1, n),
      answers |-> [i \in 1..n |-> geocode[i].kind],
      area_table |-> table ]

_geocode_location_Propagates(location, geocode) ==
    IF geocode[1].kind = "raise" THEN geocoded(location, geocode, 1, NoCoords, FALSE, TRUE)
    ELSE IF geocode[1].kind = "hit"
        THEN geocoded(location, geocode, 1, geocode[1].at, FALSE, FALSE)
    ELSE IF geocode[2].kind = "raise"
        THEN geocoded(location, geocode, 2, NoCoords, FALSE, TRUE)
    ELSE geocoded(location, geocode, 2, geocode[2].at, FALSE, FALSE)

\* _geocode_location.  An exception of any lookup leaves the try block and
\* None is returned; no exception leaves the function.
_geocode_location(location, geocode) ==
    IF geocode[1].kind = "raise" THEN geocoded(location, geocode, 1, NoCoords, FALSE, FALSE)
    ELSE IF geocode[1].kind = "hit"
        THEN geocoded(location, geocode, 1, geocode[1].at, FALSE, FALSE)
    ELSE IF geocode[2].kind = "raise"
        THEN geocoded(location, geocode, 2, NoCoords, FALSE, FALSE)
    ELSE IF geocode[2].kind = "hit"
        THEN geocoded(location, geocode, 2, geocode[2].at, FALSE, FALSE)
    ELSE IF Contains(<<"ahmedabad">>, lower(location))
        THEN IF geocode[3].kind = "raise"
             THEN geocoded(location, geocode, 3, NoCoords, FALSE, FALSE)
             ELSE IF geocode[3].kind = "hit"
             THEN geocoded(location, geocode, 3, geocode[3].at, FALSE, FALSE)
             ELSE geocoded(location, geocode, 3,
                           _get_ahmedabad_coordinates(location), TRUE, FALSE)
    ELSE geocoded(location, geocode, 2, NoCoords, FALSE, FALSE)

\* ---- _fallback_distance_calculation
\* Distances are in hundredths of a km; the tables give whole km.
city_distances ==
    << [city1 |-> "Mumbai",    city2 |-> "Delhi",      distance |-> 1400],
       [city1 |-> "Mumbai",    city2 |-> "Bangalore",  distance |-> 850],
       [city1 |-> "Delhi",     city2 |-> "Bangalore",  distance |-> 2200],
       [city1 |-> "Mumbai",    city2 |-> "Pune",       distance |-> 150],
       [city1 |-> "Delhi",     city2 |-> "Gurgaon",    distance |-> 30],
       [city1 |-> "Bangalore", city2 |-> "Chennai",    distance |-> 350],
       [city1 |-> "Mumbai",    city2 |-> "Ahmedabad",  distance |-> 530],
       [city1 |-> "Delhi",     city2 |-> "Jaipur",     distance |-> 280],
       [city1 |-> "Bangalore", city2 |-> "Hyderabad",  distance |-> 570],
       [city1 |-> "Mumbai",    city2 |-> "Nashik",     distance |-> 180],
       [city1 |-> "Delhi",     city2 |-> "Noida",      distance |-> 25],
       [city1 |-> "Mumbai",    city2 |-> "Thane",      distance |-> 35],
       [city1 |-> "Bangalore", city2 |-> "Mysore",     distance |-> 150],
       [city1 |-> "Chennai",   city2 |-> "Coimbatore", distance |-> 500],
       [city1 |-> "Kolkata",   city2 |-> "Howrah",     distance |-> 5] >>

ahmedabad_areas ==
    << [area1 |-> <<"kankaria">>,   area2 |-> <<"paldi">>,       distance |-> 8],
       [area1 |-> <<"pushpakunj">>, area2 |-> <<"paldi">>,       distance |-> 8],
       [area1 |-> <<"kankaria">>,   area2 |-> <<"shivalik">>,    distance |-> 8],
       [area1 |-> <<"pushpakunj">>, area2 |-> <<"shivalik">>,    distance |-> 8],
       [area1 |-> <<"kankaria">>,   area2 |-> <<"maninagar">>,   distance |-> 3],
       [area1 |-> <<"paldi">>,      area2 |-> <<"maninagar">>,   distance |-> 6],
       [area1 |-> <<"kankaria">>,   area2 |-> <<"vadaj">>,       distance |-> 12],
       [area1 |-> <<"paldi">>,      area2 |-> <<"vadaj">>,       distance |-> 8],
       [area1 |-> <<"kankaria">>,   area2 |-> <<"bapunagar">>,   distance |-> 5],
       [area1 |-> <<"paldi">>,      area2 |-> <<"bapunagar">>,   distance |-> 7],
       [area1 |-> <<"kankaria">>,   area2 |-> <<"navrangpura">>, distance |-> 4],
       [area1 |-> <<"paldi">>,      area2 |-> <<"navrangpura">>, distance |-> 2],
       [area1 |-> <<"kankaria">>,   area2 |-> <<"cg", "road">>,  distance |-> 6],
       [area1 |-> <<"paldi">>,      area2 |-> <<"cg", "road">>,  distance |-> 3],
       [area1 |-> <<"kankaria">>,   area2 |-> <<"sabarmati">>,   distance |-> 15],
       [area1 |-> <<"paldi">>,      area2 |-> <<"sabarmati">>,   distance |-> 12] >>

major_cities ==
    << [key |-> "mumbai",    name |-> "Mumbai"],
       [key |-> "delhi",     name |-> "Delhi"],
       [key |-> "bangalore", name |-> "Bangalore"],
       [key |-> "chennai",   name |-> "Chennai"],
       [key |-> "kolkata",   name |-> "Kolkata"],
       [key |-> "hyderabad", name |-> "Hyderabad"],
       [key |-> "pune",      name |-> "Pune"],
       [key |-> "ahmedabad", name |-> "Ahmedabad"],
       [key |-> "jaipur",    name |-> "Jaipur"] >>

\* The draws of random.random(), in hundredths.
RandomDraws == {0, 37, 100}

\* random.uniform(a, b) = a + (b - a) * random(), for a and b in km.
uniform(a, b, rnd) == a * 100 + (b - a) * rnd

\* The entries of ahmedabad_areas that the pair matches, in either order.
area_matches(origin_lower, destination_lower) ==
    { i \in DOMAIN ahmedabad_areas :
          LET area1 == ahmedabad_areas[i].area1
              area2 == ahmedabad_areas[i].area2
          IN  \/ Contains(area1, origin_lower) /\ Contains(area2, destination_lower)
              \/ Contains(area2, origin_lower) /\ Contains(area1, destination_lower) }

\* The entries of city_distances that the pair matches, in either order.
city_matches(origin_lower, destination_lower) ==
    { i \in DOMAIN city_distances :
          LET city1 == <<Lower(city_distances[i].city1)>>
              city2 == <<Lower(city_distances[i].city2)>>
          IN  \/ Contains(city1, origin_lower) /\ Contains(city2, destination_lower)
              \/ Contains(city2, origin_lower) /\ Contains(city1, destination_lower) }

\* The last major city whose key occurs in the text, else None.
city_found(location_lower) ==
    LET hits == { i \in DOMAIN major_cities :
                      Contains(<<major_cities[i].key>>, location_lower) }
    IN  IF hits # {} THEN major_cities[Max(hits)].name ELSE None

\* The major-city tier tried before the same-city tier.
_fallback_distance_calculation_CityFirst(origin, destination, rnd) ==
    LET origin_lower == lower(origin)
        destination_lower == lower(destination)
        areas == area_matches(origin_lower, destination_lower)
        cities == city_matches(origin_lower, destination_lower)
    IN  IF areas # {} THEN ahmedabad_areas[Min(areas)].distance * 100
        ELSE IF cities # {} THEN city_distances[Min(cities)].distance * 100
        ELSE IF city_found(origin_lower) # None \/ city_found(destination_lower) # None
            THEN uniform(20, 100, rnd)
        ELSE IF same_city(origin, destination) THEN uniform(2, 15, rnd)
        ELSE uniform(5, 25, rnd)

_fallback_distance_calculation_OneWay(origin, destination, rnd) ==
    LET hits == { i \in DOMAIN city_distances :
                      /\ Contains(<<Lower(city_distances[i].city1)>>, lower(origin))
                      /\ Contains(<<Lower(city_distances[i].city2)>>, lower(destination)) }
    IN  IF hits # {} THEN city_distances[Min(hits)].distance * 100
        ELSE uniform(5, 25, rnd)

_fallback_distance_calculation(origin, destination, rnd) ==
    LET origin_lower == lower(origin)
        destination_lower == lower(destination)
        areas == area_matches(origin_lower, destination_lower)
        cities == city_matches(origin_lower, destination_lower)
        origin_city_found == city_found(origin_lower)
        dest_city_found == city_found(destination_lower)
        known == { i \in DOMAIN city_distances :
                       LET city1 == city_distances[i].city1
                           city2 == city_distances[i].city2
                       IN  \/ city1 = origin_city_found /\ city2 = dest_city_found
                           \/ city2 = origin_city_found /\ city1 = dest_city_found }
    IN  IF areas # {} THEN ahmedabad_areas[Min(areas)].distance * 100
        ELSE IF cities # {} THEN city_distances[Min(cities)].distance * 100
        ELSE IF same_city(origin, destination) THEN uniform(2, 15, rnd)
        ELSE IF origin_city_found # None /\ dest_city_found # None /\ known # {}
            THEN city_distances[Min(known)].distance * 100
        ELSE IF origin_city_found # None \/ dest_city_found # None
            THEN uniform(20, 100, rnd)
        ELSE uniform(5, 25, rnd)

\* ---- _validate_distance
_validate_distance(distance, origin, destination, rnd) ==
    IF same_city(origin, destination)
    THEN IF distance > 5000 \/ distance < 50
         THEN _fallback_distance_calculation(origin, destination, rnd)
         ELSE distance
    ELSE IF distance < 500
         THEN _fallback_distance_calculation(origin, destination, rnd)
         ELSE distance

\* ---- _estimate_distance
\* The frames of the call at its return: the two locations found (None for
\* one that was not looked up), the geodesic distance rounded to 1 decimal
\* (-1 when it was not computed) and the distance returned.  An exception of
\* geodesic() is caught and the fallback runs.
_estimate_distance(origin, destination, g1, g2, rnd) ==
    LET origin_location == _geocode_location(origin, g1).value
        destination_location == _geocode_location(destination, g2).value
        fallback == _fallback_distance_calculation(origin, destination, rnd)
        frame(o, d, raw, result) ==
            [ origin |-> origin, destination |-> destination,
              origin_location |-> o, destination_location |-> d,
              distance |-> raw, result |-> result ]
    IN  IF origin_location = NoCoords
        THEN { frame(NoCoords, NoCoords, -1, fallback) }
        ELSE IF destination_location = NoCoords
        THEN { frame(origin_location, NoCoords, -1, fallback) }
        ELSE IF geodesic_raises(origin_location, destination_location)
        THEN { frame(origin_location, destination_location, -1, fallback) }
        ELSE { frame(origin_location, destination_location, tenths * 10,
                     _validate_distance(tenths * 10, origin, destination, rnd)) :
                   tenths \in round(geodesic(origin_location, destination_location), 10) }

\* ---- the calls
\* A session resolves one location text.
GeocodeLocation(p, location, geocode) ==
    /\ Ready
    /\ pc[p] = "idle"
    /\ LET found == _geocode_location(location, geocode)
       IN  IF found.raised
           THEN Raise(p, "geocode_location")
           ELSE Ret(p, "geocode_location", [location |-> location, found |-> found])
    /\ UNCHANGED <<now, bookings, admin_data, pc, call, confirms>>
    /\ Track

\* A session estimates the distance of a pair of location texts.
EstimateDistance(p, origin, destination, g1, g2, rnd) ==
    /\ Ready
    /\ pc[p] = "idle"
    /\ \E frame \in _estimate_distance(origin, destination, g1, g2, rnd) :
           Ret(p, "estimate_distance", frame)
    /\ UNCHANGED <<now, bookings, admin_data, pc, call, confirms>>
    /\ Track

\* ---- suggest_routes
common_places ==
    << [name |-> "City Center",     type |-> "commercial"],
       [name |-> "Railway Station", type |-> "transport"],
       [name |-> "Shopping Mall",   type |-> "commercial"],
       [name |-> "Hospital",        type |-> "essential"],
       [name |-> "University",      type |-> "educational"],
       [name |-> "Park",            type |-> "recreation"],
       [name |-> "Temple",          type |-> "religious"],
       [name |-> "Market",          type |-> "commercial"],
       [name |-> "Airport",         type |-> "transport"],
       [name |-> "Bus Stand",       type |-> "transport"] >>

\* The draws of random.sample(common_places, 8): the i-th draw is the place
\* taken among those still left.
SampleDraws ==
    { <<1, 1, 1, 1, 1, 1, 1, 1>>,
      <<10, 9, 8, 7, 6, 5, 4, 3>>,
      <<3, 1, 4, 1, 5, 2, 2, 1>> }

RECURSIVE sample_WithReplacement(_, _)
sample_WithReplacement(population, draws) ==
    IF draws = << >> THEN << >>
    ELSE <<population[Head(draws)]>> \o sample_WithReplacement(population, Tail(draws))

\* random.sample(population, k) for k draws: selection without replacement.
RECURSIVE sample(_, _)
sample(population, draws) ==
    IF draws = << >> THEN << >>
    ELSE LET i == Head(draws)
             left == SubSeq(population, 1, i - 1)
                         \o SubSeq(population, i + 1, Len(population))
         IN  <<population[i]>> \o sample(left, Tail(draws))

\* _get_places_along_route: the places (name and type of each; its distance
\* from the origin, stop time and coordinates are left out), or the
\* exception of geodesic(), which is not caught here.
_get_places_along_route(origin, destination, g1, g2, draws) ==
    LET origin_city == _extract_city_name(origin)
        destination_city == _extract_city_name(destination)
        origin_coords == _geocode_location(origin, g1).value
        destination_coords == _geocode_location(destination, g2).value
        selected_places == sample(common_places, draws)
    IN  [ raised |-> /\ origin_coords # NoCoords
                     /\ destination_coords # NoCoords
                     /\ geodesic_raises(origin_coords, destination_coords),
          places |->
              [ i \in DOMAIN selected_places |->
                  [ name |-> <<selected_places[i].name, "(">>
                                 \o (IF i <= 4 THEN origin_city ELSE destination_city)
                                 \o <<")">>,
                    type |-> selected_places[i].type ] ] ]

\* route1 and route2 of a base distance (hundredths of a km): distance_km in
\* tenths of a km, estimated_time_minutes in minutes.  The route points are
\* left out.
routes_of(base_distance, places_along_route) ==
    { << [ id |-> "route_1",
           distance_km |-> d1,
           estimated_time_minutes |-> t1,
           traffic_level |-> "moderate",
           places_along_route |-> SubSeq(places_along_route, 1, 4),
           route_type |-> "highway" ],
         [ id |-> "route_2",
           distance_km |-> d2,
           estimated_time_minutes |-> t2,
           traffic_level |-> "light",
           places_along_route |-> SubSeq(places_along_route, 5, 8),
           route_type |-> "scenic" ] >> :
          d1 \in round(base_distance * 11, 100),
          t1 \in round(base_distance * 242, 10000),
          d2 \in round(base_distance * 13, 100),
          t2 \in round(base_distance * 195, 10000) }

\* The sessions that ask for routes, and the texts they ask for.
RouteClients == {"c1"}
RoutePlaces ==
    { <<"Mumbai">>, <<"kankaria">>, <<"Maninagar">>,
      <<"Station", "Road", ",", "Surat">>, <<"Ring", "Road", ",", "SURAT">> }

\* suggest_routes, line 32: the base distance.
SuggestRoutesEstimate(p, origin, destination, vehicle_type, g1, g2, rnd) ==
    /\ Ready
    /\ pc[p] = "idle"
    /\ \E frame \in _estimate_distance(origin, destination, g1, g2, rnd) :
           call' = [call EXCEPT ![p] =
                       [ op |-> "suggest_routes",
                         origin |-> origin,
                         destination |-> destination,
                         vehicle_type |-> vehicle_type,
                         base_distance |-> frame.result,
                         places_along_route |-> << >>,
                         routes |-> << >> ]]
    /\ pc' = [pc EXCEPT ![p] = "places"]
    /\ Running
    /\ UNCHANGED <<now, bookings, admin_data, confirms>>
    /\ Track

\* suggest_routes, lines 35-73: the places and the two routes.
SuggestRoutesPlaces(p, g1, g2, draws) ==
    /\ Ready
    /\ pc[p] = "places"
    /\ LET got == _get_places_along_route(call[p].origin, call[p].destination,
                                          g1, g2, draws)
       IN  IF got.raised
           THEN /\ Raise(p, "suggest_routes")
                /\ pc' = [pc EXCEPT ![p] = "idle"]
                /\ call' = [call EXCEPT ![p] = NoCall]
           ELSE /\ Running
                /\ pc' = [pc EXCEPT ![p] = "real_distance"]
                /\ \E routes \in routes_of(call[p].base_distance, got.places) :
                       call' = [call EXCEPT ![p].places_along_route = got.places,
                                            ![p].routes = routes]
    /\ UNCHANGED <<now, bookings, admin_data, confirms>>
    /\ Track

\* suggest_routes, lines 75-88: the distance is estimated once more and the
\* result returned (origin_coordinates and destination_coordinates, which
\* nothing modelled reads, are left out).  The value handed back is the
\* result with the base distance the call had computed.
SuggestRoutesReturn(p, g1, g2, rnd) ==
    /\ Ready
    /\ pc[p] = "real_distance"
    /\ \E frame \in _estimate_distance(call[p].origin, call[p].destination, g1, g2, rnd) :
           Ret(p, "suggest_routes",
               [ base_distance |-> call[p].base_distance,
                 result |->
                     [ origin |-> call[p].origin,
                       destination |-> call[p].destination,
                       vehicle_type |-> call[p].vehicle_type,
                       routes |-> call[p].routes,
                       total_places_along_route |-> Len(call[p].places_along_route),
                       real_distance_km |-> frame.result ] ])
    /\ pc' = [pc EXCEPT ![p] = "idle"]
    /\ call' = [call EXCEPT ![p] = NoCall]
    /\ UNCHANGED <<now, bookings, admin_data, confirms>>
    /\ Track

\* The location resolver and the distance estimator, called on their own.
NextDistance ==
    \/ \E p \in RouteClients, location \in Places, geocode \in Geocodes :
           GeocodeLocation(p, location, geocode)
    \/ \E p \in RouteClients, origin \in Places, destination \in Places,
          g1 \in Resolutions, g2 \in Resolutions, rnd \in RandomDraws :
           EstimateDistance(p, origin, destination, g1, g2, rnd)
    \/ Return

SpecDistance == Init /\ [][NextDistance]_vars

\* The route suggestions.
NextRoutes ==
    \/ \E p \in RouteClients, origin \in RoutePlaces, destination \in RoutePlaces,
          g1 \in Resolutions, g2 \in Resolutions, rnd \in RandomDraws :
           SuggestRoutesEstimate(p, origin, destination, "bike", g1, g2, rnd)
    \/ \E p \in RouteClients, g1 \in Resolutions, g2 \in Resolutions,
          draws \in SampleDraws :
           SuggestRoutesPlaces(p, g1, g2, draws)
    \/ \E p \in RouteClients, g1 \in Resolutions, g2 \in Resolutions,
          rnd \in RandomDraws :
           SuggestRoutesReturn(p, g1, g2, rnd)
    \/ Return

SpecRoutes == Init /\ [][NextRoutes]_vars

\* ------------------------------------------------------------- AIService
\* src/services/ai_service.py.  A response text is a sequence of lower-case
\* and capitalised words, as a location text is.

\* What the provider's reply says of the weather and of the traffic.
WeatherWords ==
    { << >>, <<"Heavy", "rain">>, <<"heavy", "snowfall">>, <<"light", "rain">>,
      <<"Light", "drizzle">>, <<"Fog">>, <<"storm">>,
      <<"storm", "after", "light", "rain">>, <<"fog", "and", "heavy", "rain">> }

TrafficWords ==
    { << >>, <<"Heavy", "traffic">>, <<"traffic", "congestion">>,
      <<"severe", "traffic">>, <<"traffic", "jam">>, <<"Light", "traffic">>,
      <<"no", "traffic">>, <<"traffic", "jam", "then", "heavy", "traffic">> }

\* What generate_content does: it raises (no network, quota, timeout), it
\* returns a response without text (response.text is None), or it returns a
\* response with a text.
Responses ==
    { [kind |-> "raise", text |-> << >>], [kind |-> "no_text", text |-> << >>] }
    \cup { [kind |-> "text", text |-> w \o <<"with">> \o t] :
               w \in WeatherWords, t \in TrafficWords }

\* _get_demo_conditions.
_get_demo_conditions(origin, destination) ==
    [ weather |-> "clear",
      traffic |-> "moderate",
      weather_multiplier |-> 10,
      traffic_multiplier |-> 14,
      description |-> <<"Demo", "conditions", "for">> \o origin \o <<"to">>
                          \o destination,
      is_demo |-> TRUE ]

\* _parse_conditions: the first phrase of each chain of tests that occurs in
\* the lower-cased text decides.
_parse_conditions(response_text) ==
    LET response_lower == lower(response_text)
        has(phrase) == Contains(phrase, response_lower)
        weather ==
            IF has(<<"heavy", "rain">>) \/ has(<<"heavy", "snowfall">>)
            THEN [name |-> "heavy_rain", multiplier |-> 15]
            ELSE IF has(<<"light", "rain">>) \/ has(<<"light", "drizzle">>)
            THEN [name |-> "light_rain", multiplier |-> 12]
            ELSE IF has(<<"fog">>) THEN [name |-> "fog", multiplier |-> 13]
            ELSE IF has(<<"storm">>) THEN [name |-> "storm", multiplier |-> 18]
            ELSE [name |-> "clear", multiplier |-> 10]
        traffic ==
            IF has(<<"heavy", "traffic">>) \/ has(<<"traffic", "congestion">>)
            THEN [name |-> "heavy", multiplier |-> 18]
            ELSE IF has(<<"severe", "traffic">>) \/ has(<<"traffic", "jam">>)
            THEN [name |-> "severe", multiplier |-> 22]
            ELSE IF has(<<"light", "traffic">>) \/ has(<<"no", "traffic">>)
            THEN [name |-> "light", multiplier |-> 10]
            ELSE [name |-> "moderate", multiplier |-> 14]
    IN  [ weather |-> weather.name,
          traffic |-> traffic.name,
          weather_multiplier |-> weather.multiplier,
          traffic_multiplier |-> traffic.multiplier,
          description |-> response_text,
          is_demo |-> FALSE ]

\* The frame of a get_realtime_conditions call at its end: the service's
\* client (None when the service was built without a usable key), whether
\* create_grounding_config gave a configuration (it gives none without a
\* client), what generate_content did
\* (None when it was not called), whether an exception left the call, and
\* the conditions returned.
conditions_frame(origin, destination, client, config_ok, asked, raised, result) ==
    [ origin |-> origin, destination |-> destination, client |-> client,
      config_ok |-> config_ok, response |-> asked, raised |-> raised,
      result |-> result ]

\* The exception of the provider leaves the call.
get_realtime_conditions_Propagates(origin, destination, client, config_ok, response) ==
    LET demo == _get_demo_conditions(origin, destination)
        frame(asked, raised, result) ==
            conditions_frame(origin, destination, client, client # None /\ config_ok,
                             asked, raised, result)
    IN  IF client = None THEN frame(None, FALSE, demo)
        ELSE IF ~config_ok THEN frame(None, FALSE, demo)
        ELSE IF response.kind = "text"
        THEN frame(response.kind, FALSE, _parse_conditions(response.text))
        ELSE frame(response.kind, TRUE, Empty)

\* get_realtime_conditions: without a client, without a configuration, and
\* on any exception of the call or of the parsing, the demo conditions.
get_realtime_conditions(origin, destination, client, config_ok, response) ==
    LET demo == _get_demo_conditions(origin, destination)
        frame(asked, raised, result) ==
            conditions_frame(origin, destination, client, client # None /\ config_ok,
                             asked, raised, result)
    IN  IF client = None THEN frame(None, FALSE, demo)
        ELSE IF ~config_ok THEN frame(None, FALSE, demo)
        ELSE IF response.kind = "text"
        THEN frame(response.kind, FALSE, _parse_conditions(response.text))
        ELSE frame(response.kind, FALSE, demo)

\* The service as built: with a client of the provider, or without one.
AIClients == {None, "client"}

\* A session asks for the conditions of a trip.
GetRealtimeConditions(p, origin, destination, client, config_ok, response) ==
    /\ Ready
    /\ pc[p] = "idle"
    /\ LET frame == get_realtime_conditions(origin, destination, client,
                                            config_ok, response)
       IN  IF frame.raised
           THEN Raise(p, "get_realtime_conditions")
           ELSE Ret(p, "get_realtime_conditions", frame)
    /\ UNCHANGED <<now, bookings, admin_data, pc, call, confirms>>
    /\ Track

NextConditions ==
    \/ \E p \in RouteClients, origin \in RoutePlaces, destination \in RoutePlaces,
          client \in AIClients, config_ok \in BOOLEAN, response \in Responses :
           GetRealtimeConditions(p, origin, destination, client, config_ok, response)
    \/ Return

SpecConditions == Init /\ [][NextConditions]_vars

\* ---- route keys
\* The trips of users who type an origin or a destination in which "_to_"
\* occurs, beside the plain ones.
KeyTrips ==
    Trips \cup
    { [origin |-> <<"A">>, destination |-> <<"B", "_to_", "C">>],
      [origin |-> <<"A", "_to_", "B">>, destination |-> <<"C">>] }

\* One session that books and confirms, one call after the other, with no
\* failure of the storage.
NextKeys ==
    \/ Tick
    \/ \E trip \in KeyTrips : CreateBooking("c1", trip)
    \/ \E b \in BookingIds, offer \in Offers : SelectRouteGetBooking("c1", b, offer)
    \/ SelectRouteUpdateBooking("c1")
    \/ SelectRouteGetAdminData("c1")
    \/ SelectRouteUpdateAdminData("c1", TRUE)
    \/ Return

SpecKeys == Init /\ [][NextKeys]_vars

\* ================================================================ claims

\* The ledger as stored, and one route key's share of it.
Ledger == get_admin_data(admin_data)

RouteBookings(ledger, key) ==
    IF HasKey(ledger.route_statistics, key)
    THEN LET i == CHOOSE i \in DOMAIN ledger.route_statistics :
                      ledger.route_statistics[i].key = key
         IN  ledger.route_statistics[i].total_bookings
    ELSE 0

RouteRevenue(ledger, key) ==
    IF HasKey(ledger.route_statistics, key)
    THEN LET i == CHOOSE i \in DOMAIN ledger.route_statistics :
                      ledger.route_statistics[i].key = key
         IN  ledger.route_statistics[i].total_revenue
    ELSE 0

RouteKeys(ledger) ==
    { ledger.route_statistics[i].key : i \in DOMAIN ledger.route_statistics }

\* The step in which session p's select_route writes the ledger and returns True.
SelectRouteReturnsTrue(p) ==
    /\ pc[p] = "update_admin_data"
    /\ ret'.proc = p
    /\ Returned(ret', "select_route")
    /\ ret'.value = TRUE

\* The step in which session p's select_route is left by the exception of a
\* failed ledger write.
SelectRouteRaises(p) ==
    /\ pc[p] = "update_admin_data"
    /\ ret'.proc = p
    /\ ret'.op = "select_route"
    /\ ret'.status = "raised"

\* `new` is `old` with one booking of `pricing` on `key` added.
CountedIn(old, new, key, pricing) ==
    /\ new.total_bookings = old.total_bookings + 1
    /\ new.total_revenue = old.total_revenue + pricing.final_fare
    /\ new.total_driver_earnings = old.total_driver_earnings + pricing.driver_earnings
    /\ new.total_company_profit = old.total_company_profit + pricing.company_profit
    /\ RouteBookings(new, key) = RouteBookings(old, key) + 1
    /\ RouteRevenue(new, key) = RouteRevenue(old, key) + pricing.final_fare

\* C1: no confirmation is lost, whatever runs beside it: each select_route
\* that returns True leaves the stored ledger increased, over what was stored
\* just before its write, by its booking -- the four totals and the entry of
\* the booking's route key.
C1_NoLostUpdate ==
    [][\A p \in Clients :
          SelectRouteReturnsTrue(p) =>
              CountedIn(Ledger, Ledger', route_key(call[p].booking), call[p].pricing)]_vars

\* C6: the ledger only grows: no step lowers total_bookings or total_revenue,
\* removes a route key, or lowers a route key's booking count.
C6_Monotonic ==
    [][/\ Ledger'.total_bookings >= Ledger.total_bookings
       /\ Ledger'.total_revenue >= Ledger.total_revenue
       /\ \A key \in RouteKeys(Ledger) :
             /\ key \in RouteKeys(Ledger')
             /\ RouteBookings(Ledger', key) >= RouteBookings(Ledger, key)]_vars

\* C2: a failed ledger write is surfaced and changes nothing: when the write
\* of select_route raises, or would change no row, select_route does not
\* return True and the stored ledger is what it was before the step -- and,
\* when no other confirmation ran beside the call, what it was when the call
\* began.
C2_FailedWriteAborts ==
    [][\A p \in Clients :
          /\ SelectRouteRaises(p) =>
                /\ Ledger' = Ledger
                /\ admin_data' = admin_data
                /\ ~call[p].overlap => Ledger' = call[p].before
          /\ (pc[p] = "update_admin_data" /\ pc'[p] = "idle"
                /\ ~update_admin_data_ok(admin_data)) =>
                ~SelectRouteReturnsTrue(p)]_vars

\* A confirmation has failed at the ledger write: the booking is confirmed,
\* the caller got the exception.
C2_Witness ==
    /\ ret.op = "select_route"
    /\ ret.status = "raised"
    /\ \E b \in DOMAIN bookings : bookings[b].status = "confirmed"

\* C3: what select_route counted is in the store when it returns True (the
\* route key of its booking has an entry holding at least this booking), and
\* a stop and restart of the process leaves the stored ledger and the stored
\* bookings as they were.
C3_Durable ==
    [][/\ \A p \in Clients :
             SelectRouteReturnsTrue(p) =>
                 LET key == route_key(call[p].booking)
                 IN  /\ Ledger'.total_bookings >= 1
                     /\ Ledger'.total_revenue >= call[p].pricing.final_fare
                     /\ RouteBookings(Ledger', key) >= 1
                     /\ RouteRevenue(Ledger', key) >= call[p].pricing.final_fare
       /\ Restart => (admin_data' = admin_data /\ bookings' = bookings)]_vars

\* The process has just been restarted over a ledger that counts two bookings.
C3_Witness ==
    /\ ret.op = "restart"
    /\ Ledger.total_bookings = 2
    /\ Ledger.total_revenue = 300

\* C5: a select_route that returns True, with no other confirmation in
\* progress at any time during the call, leaves the ledger that was stored
\* when the call began with total_bookings + 1, the three money totals
\* increased by the pricing, the entry of "o_to_d" (zero when absent)
\* increased by one booking and final_fare, and every other entry as it was
\* and where it was.
C5_RecordEffect ==
    [][\A p \in Clients :
          (SelectRouteReturnsTrue(p) /\ ~call[p].overlap) =>
              LET old == call[p].before
                  new == Ledger'
                  key == call[p].booking.origin \o <<"_to_">> \o call[p].booking.destination
                  fare == call[p].pricing.final_fare
              IN  /\ new.total_bookings = old.total_bookings + 1
                  /\ new.total_revenue = old.total_revenue + fare
                  /\ new.total_driver_earnings =
                         old.total_driver_earnings + call[p].pricing.driver_earnings
                  /\ new.total_company_profit =
                         old.total_company_profit + call[p].pricing.company_profit
                  /\ RouteBookings(new, key) = RouteBookings(old, key) + 1
                  /\ RouteRevenue(new, key) = RouteRevenue(old, key) + fare
                  /\ RouteKeys(new) = RouteKeys(old) \cup {key}
                  /\ Len(new.route_statistics) = Cardinality(RouteKeys(new))
                  /\ \A i \in DOMAIN old.route_statistics :
                        old.route_statistics[i].key # key =>
                            new.route_statistics[i] = old.route_statistics[i]
                  /\ \A i \in DOMAIN new.route_statistics :
                        LET e == new.route_statistics[i]
                        IN  (e.total_bookings = 2 /\ e.total_revenue = 300) =>
                                e.average_fare[1] = 150 * e.average_fare[2]]_vars

\* Fares 100 and 200 were recorded for two bookings of one route key, one
\* call after the other: 2 bookings, revenue 300, average 150.
C5_Witness ==
    /\ ret.op = "select_route" /\ ret.status = "returned"
    /\ Cardinality({ b \in DOMAIN bookings : bookings[b].status = "confirmed" }) = 2
    /\ \E i \in DOMAIN Ledger.route_statistics :
          LET e == Ledger.route_statistics[i]
          IN  /\ e.total_bookings = 2
              /\ e.total_revenue = 300
              /\ e.average_fare[1] = 150 * e.average_fare[2]
    /\ Len(Ledger.route_statistics) = 1
    /\ Ledger.total_bookings = 2

\* C7: select_route and cancel_booking on an id that no booking has return
\* False, and leave every booking row and the ledger as they were.
C7_UnknownBooking ==
    [][\A p \in Clients, b \in BookingIds :
          /\ (b \notin DOMAIN bookings /\ \E offer \in Offers : SelectRouteGetBooking(p, b, offer)) =>
                /\ Returned(ret', "select_route") /\ ret'.value = FALSE
                /\ bookings' = bookings /\ admin_data' = admin_data
          /\ (b \notin DOMAIN bookings /\ CancelBooking(p, b)) =>
                /\ Returned(ret', "cancel_booking") /\ ret'.value = FALSE
                /\ bookings' = bookings /\ admin_data' = admin_data]_vars

\* cancel_booking has just returned False while a booking exists under
\* another id.
C7_Witness ==
    /\ Returned(ret, "cancel_booking")
    /\ ret.value = FALSE
    /\ DOMAIN bookings # {}
    /\ DOMAIN bookings # BookingIds

\* average_fare is total_revenue / total_bookings in every entry of `stats`.
AverageIsQuotient(stats) ==
    \A i \in DOMAIN stats :
        /\ stats[i].total_bookings > 0
        /\ stats[i].average_fare[2] > 0
        /\ stats[i].average_fare[1] * stats[i].total_bookings
               = stats[i].total_revenue * stats[i].average_fare[2]

\* C4: in every route entry a read returns (the analytics' all_routes and
\* top_routes, the dashboard's summary), and in every entry stored,
\* average_fare equals total_revenue / total_bookings of that entry.
C4_AverageFare ==
    /\ AverageIsQuotient(Ledger.route_statistics)
    /\ Returned(ret, "analytics") =>
           /\ AverageIsQuotient(ret.value.all_routes)
           /\ AverageIsQuotient(ret.value.top_routes)
    /\ Returned(ret, "dashboard") =>
           AverageIsQuotient(ret.value.summary.route_statistics)

\* The analytics returned an entry of two bookings, 300 in all.
C4_Witness ==
    /\ Returned(ret, "analytics")
    /\ \E i \in DOMAIN ret.value.all_routes :
          /\ ret.value.all_routes[i].total_bookings = 2
          /\ ret.value.all_routes[i].total_revenue = 300

\* C8: what one get_admin_dashboard_data call returns -- summary, recent
\* confirmed bookings and pending count together -- is the stored state of
\* one instant between the call's start and its return.
C8_SnapshotRead ==
    Returned(ret, "dashboard") => ret.value \in seen[ret.proc]

Position(items, key) == CHOOSE i \in DOMAIN items : items[i].key = key

\* Entry a comes before entry b in top_routes: more revenue, or the same
\* revenue and inserted earlier.
RanksBefore(all, a, b) ==
    \/ a.total_revenue > b.total_revenue
    \/ /\ a.total_revenue = b.total_revenue
       /\ Position(all, a.key) < Position(all, b.key)

\* C9: top_routes holds the first TopRoutes entries (all when there are
\* fewer) of the route entries ordered by total_revenue, largest first,
\* entries of equal revenue in the order of their insertion.
C9_TopRoutes ==
    Returned(ret, "analytics") =>
        LET all == ret.value.all_routes
            top == ret.value.top_routes
            topKeys == { top[i].key : i \in DOMAIN top }
        IN  /\ Len(top) = IF Len(all) < TopRoutes THEN Len(all) ELSE TopRoutes
            /\ \A i \in DOMAIN top : \E j \in DOMAIN all : all[j] = top[i]
            /\ \A i, j \in DOMAIN top : i < j => RanksBefore(all, top[i], top[j])
            /\ \A j \in DOMAIN all :
                  all[j].key \notin topKeys =>
                      \A i \in DOMAIN top : RanksBefore(all, top[i], all[j])

\* Six entries; two of equal revenue head top_routes; the first and the last
\* inserted both have the least revenue, the first is kept as fifth and the
\* last is left out.
C9_Witness ==
    /\ Returned(ret, "analytics")
    /\ Len(ret.value.all_routes) = 6
    /\ Len(ret.value.top_routes) = 5
    /\ ret.value.top_routes[1].total_revenue = ret.value.top_routes[2].total_revenue
    /\ ret.value.all_routes[1].total_revenue = 100
    /\ ret.value.all_routes[6].total_revenue = 100
    /\ ret.value.top_routes[5] = ret.value.all_routes[1]
    /\ ret.value.all_routes[6].key \notin { ret.value.top_routes[i].key : i \in 1..5 }

\* C10: no step of get_admin_dashboard_data or get_route_analytics changes a
\* booking row or the ledger.
C10_ReadsChangeNothing ==
    [][\A r \in Readers :
          ReaderStep(r) => (bookings' = bookings /\ admin_data' = admin_data)]_vars

\* A dashboard read has returned a ledger of one booking and that booking.
C10_Witness ==
    /\ Returned(ret, "dashboard")
    /\ ret.value.summary.total_bookings = 1
    /\ Cardinality(ret.value.recent_bookings) = 1

\* The pricing call of this step.
PricingCalls ==
    { [p |-> p, route |-> route, vehicle_type |-> vehicle_type, conditions |-> conditions] :
          p \in Clients, route \in PricedRoutes,
          vehicle_type \in DOMAIN VEHICLE_TYPES, conditions \in Conditions }

Priced(c) == CalculateRoutePricing(c.p, c.route, c.vehicle_type, c.conditions)

\* C11: the returned base_cost is base_fare + distance_km x per_km_rate and
\* the returned final_fare is that cost times the weather and the traffic
\* multiplier, rounded to 2 decimals; a tariff of 50 and 10 per km, 20 km,
\* weather 1.2 and traffic 1.4 give 250.00, 420.00, 315.00 and 105.00.
C11_FareFormula ==
    [][\A c \in PricingCalls :
          Priced(c) =>
              LET tariff == VEHICLE_TYPES[c.vehicle_type]
                  w == get(c.conditions, "weather_multiplier", 10)
                  t == get(c.conditions, "traffic_multiplier", 10)
                  cost == tariff.base_fare * 100
                              + c.route.distance_km * tariff.base_rate_per_km * 10
                  out == ret'.value
              IN  /\ out.base_cost = cost
                  /\ out.final_fare \in round(cost * w * t, 100)
                  /\ ( /\ tariff.base_fare = 50 /\ tariff.base_rate_per_km = 10
                       /\ c.route.distance_km = 200 /\ w = 12 /\ t = 14 )
                     => ( /\ out.base_cost = 25000
                          /\ out.final_fare = 42000
                          /\ out.driver_earnings = 31500
                          /\ out.company_profit = 10500 )]_vars

\* The example of the specification has been priced, and so has a route whose
\* fare needed rounding.
C11_Witness ==
    /\ Returned(ret, "calculate_route_pricing")
    /\ ret.value.base_cost = 25000
    /\ ret.value.final_fare = 42000
    /\ ret.value.weather_multiplier = 12
    /\ ret.value.traffic_multiplier = 14

\* C12: the returned driver share is the returned (rounded) final_fare times
\* 0.75, rounded to 2 decimals, and the returned company share is that fare
\* times 0.25, rounded to 2 decimals.
C12_SharesOfRoundedFare ==
    Returned(ret, "calculate_route_pricing") =>
        /\ ret.value.driver_earnings \in round(ret.value.final_fare * 75, 100)
        /\ ret.value.company_profit \in round(ret.value.final_fare * 25, 100)

\* C13: driver share plus company share is within 0.02 of final_fare, and
\* the company share is a quarter of final_fare to within 0.01.
C13_SplitSlack ==
    Returned(ret, "calculate_route_pricing") =>
        LET out == ret.value
            sum == out.driver_earnings + out.company_profit
        IN  /\ sum - out.final_fare <= 2
            /\ out.final_fare - sum <= 2
            /\ 4 * out.company_profit - out.final_fare <= 4
            /\ out.final_fare - 4 * out.company_profit <= 4

\* A fare whose two shares, each rounded, add up to a paisa more than it.
C13_Witness ==
    /\ Returned(ret, "calculate_route_pricing")
    /\ ret.value.final_fare > 0
    /\ ret.value.driver_earnings + ret.value.company_profit # ret.value.final_fare

\* The plausibility rule of a distance (hundredths of a km) for a pair of
\* texts: 0.5 to 50 km within one city, at least 5 km between two.
Plausible(origin, destination, distance) ==
    IF same_city(origin, destination)
    THEN 50 <= distance /\ distance <= 5000
    ELSE distance >= 500

\* C14: every distance _estimate_distance returns, from the geodesic or from
\* any tier of the fallback, satisfies the plausibility rule of its pair.
C14_ReturnedDistancePlausible ==
    Returned(ret, "estimate_distance") =>
        Plausible(ret.value.origin, ret.value.destination, ret.value.result)

\* C15: for a same-city pair whose two ends resolve and whose geodesic
\* distance is above 50 km, the distance returned lies in [2, 15] km.
C15_SameCityTooFar ==
    ( /\ Returned(ret, "estimate_distance")
      /\ same_city(ret.value.origin, ret.value.destination)
      /\ ret.value.origin_location # NoCoords
      /\ ret.value.destination_location # NoCoords
      /\ ret.value.distance > 5000 )
    => (200 <= ret.value.result /\ ret.value.result <= 1500)

\* The pair matches an entry of one of the two static tables.
InTables(origin, destination) ==
    \/ area_matches(lower(origin), lower(destination)) # {}
    \/ city_matches(lower(origin), lower(destination)) # {}

C17_ScenicLonger ==
    Returned(ret, "suggest_routes") =>
        LET routes == ret.value.result.routes
            base == ret.value.base_distance
        IN  /\ Len(routes) = 2
            /\ routes[1].id = "route_1" /\ routes[2].id = "route_2"
            /\ routes[1].distance_km \in round(base * 11, 100)
            /\ routes[2].distance_km \in round(base * 13, 100)
            /\ routes[2].distance_km * 100 >= routes[1].distance_km * 115

\* The template a place was made of: the first word of its name.
TemplateOf(place) == Head(place.name)

\* C18: a suggest_routes result has 8 places in all, of 8 different
\* templates among the 10, the first 4 sampled on the fast route, the other 4
\* on the scenic route, and no place on both.
C18_EightPlaces ==
    Returned(ret, "suggest_routes") =>
        LET result == ret.value.result
            fast == result.routes[1].places_along_route
            scenic == result.routes[2].places_along_route
            all == fast \o scenic
        IN  /\ result.total_places_along_route = 8
            /\ Len(fast) = 4 /\ Len(scenic) = 4
            /\ \A i \in 1..8 :
                  \E k \in DOMAIN common_places : TemplateOf(all[i]) = common_places[k].name
            /\ \A i, j \in 1..8 : i # j => TemplateOf(all[i]) # TemplateOf(all[j])
            /\ \A i \in 1..4 : \A j \in 1..4 : fast[i] # scenic[j]

\* A result whose sample began at the last template and whose ends are in
\* one city.
C18_Witness ==
    /\ Returned(ret, "suggest_routes")
    /\ TemplateOf(ret.value.result.routes[1].places_along_route[1]) = "Bus Stand"
    /\ TemplateOf(ret.value.result.routes[2].places_along_route[4]) = "Shopping Mall"
    /\ same_city(ret.value.result.origin, ret.value.result.destination)

\* C19: _geocode_location returns a coordinate or None and never raises,
\* whatever the provider answers; _estimate_distance returns a distance and
\* never raises, and a pair of which an end did not resolve gets the distance
\* of the fallback.
C19_NothingRaised ==
    /\ ret.op = "geocode_location" =>
          /\ ret.status = "returned"
          /\ \/ ret.value.found.value = NoCoords
             \/ Len(ret.value.found.value) = 2
    /\ ret.op = "estimate_distance" =>
          /\ ret.status = "returned"
          /\ ret.value.result >= 0
          /\ ( \/ ret.value.origin_location = NoCoords
               \/ ret.value.destination_location = NoCoords )
             => \E rnd \in RandomDraws :
                    ret.value.result =
                        _fallback_distance_calculation(ret.value.origin,
                                                       ret.value.destination, rnd)

\* The provider found nothing for "{text}, India" and failed on the bare
\* text: None was returned.
C19_Witness ==
    /\ Returned(ret, "geocode_location")
    /\ ret.value.found.answers = <<"none", "raise">>
    /\ ret.value.found.value = NoCoords

\* C20: when the lookup of "{text}, India" fails, the bare text is still
\* looked up, and for a text with the regional keyword the state-qualified
\* text and the area table are still tried, before None is returned.
C20_LadderProceeds ==
    ( /\ Returned(ret, "geocode_location")
      /\ ret.value.found.answers[1] = "raise"
      /\ ret.value.found.value = NoCoords )
    => /\ Len(ret.value.found.lookups) >= 2
       /\ ret.value.found.lookups[2] = ret.value.location
       /\ Contains(<<"ahmedabad">>, lower(ret.value.location))
              => Len(ret.value.found.lookups) = 3

\* C21: get_realtime_conditions never raises; when the provider is
\* unavailable or fails (no client, no grounding configuration, the call
\* raises, the parsing raises) it returns weather_multiplier 1.0,
\* traffic_multiplier 1.4 and is_demo true; is_demo is false only for a
\* result parsed from a text the provider returned.
C21_DemoOnFailure ==
    ret.op = "get_realtime_conditions" =>
        /\ ret.status = "returned"
        /\ LET frame == ret.value
               failed == \/ frame.client = None
                         \/ ~frame.config_ok
                         \/ frame.response \in {"raise", "no_text"}
           IN  /\ failed =>
                     /\ frame.result.weather_multiplier = 10
                     /\ frame.result.traffic_multiplier = 14
                     /\ frame.result.is_demo = TRUE
               /\ frame.result.is_demo = FALSE =>
                     /\ frame.response = "text"
                     /\ frame.client # None
                     /\ \E response \in Responses :
                           /\ response.kind = "text"
                           /\ frame.result = _parse_conditions(response.text)

\* The provider returned a response without text: the parsing raised and the
\* demo conditions were returned.
C21_Witness ==
    /\ Returned(ret, "get_realtime_conditions")
    /\ ret.value.client # None
    /\ ret.value.config_ok
    /\ ret.value.response = "no_text"
    /\ ret.value.result.is_demo

\* A major-city name occurs in the text, in any case.
MajorCityIn(text) ==
    \E i \in DOMAIN major_cities : Contains(<<major_cities[i].key>>, lower(text))

\* The distances of the table entries that the pair matches, in either order.
TableValues(origin, destination) ==
    { ahmedabad_areas[i].distance * 100 :
          i \in area_matches(lower(origin), lower(destination)) }
    \cup { city_distances[i].distance * 100 :
               i \in city_matches(lower(origin), lower(destination)) }

\* C22: the fallback tries its tiers in order and the first that applies
\* decides: a pair matching a table entry gets a value of the table; else a
\* same-city pair gets a distance in [2, 15] km; else a pair with a
\* major-city name in an end gets one in [20, 100] km; else one in [5, 25] km.
C22_FallbackLadder ==
    ( /\ Returned(ret, "estimate_distance")
      /\ ret.value.distance = -1 )
    => LET origin == ret.value.origin
           destination == ret.value.destination
           result == ret.value.result
       IN  IF TableValues(origin, destination) # {}
           THEN result \in TableValues(origin, destination)
           ELSE IF same_city(origin, destination)
           THEN 200 <= result /\ result <= 1500
           ELSE IF MajorCityIn(origin) \/ MajorCityIn(destination)
           THEN 2000 <= result /\ result <= 10000
           ELSE 500 <= result /\ result <= 2500

\* The fallback decided a same-city pair that names a major city and is in
\* no table: at most 15 km.
C22_Witness ==
    /\ Returned(ret, "estimate_distance")
    /\ ret.value.distance = -1
    /\ ret.value.origin = <<"Andheri", ",", "Mumbai">>
    /\ ret.value.destination = <<"Mumbai">>
    /\ ret.value.result = 1500

\* The tiers of the resolver that apply to a text: the two lookups, and for a
\* text with the regional keyword the state-qualified lookup and the area
\* table.
ApplicableLookups(location) ==
    IF Contains(<<"ahmedabad">>, lower(location)) THEN 3 ELSE 2

\* C23: the resolver makes its lookups in order ("{text}, India", the bare
\* text, for a text with the regional keyword "{text}, Gujarat, India" and
\* then the area table), returns the coordinate of the first tier that gives
\* one and consults no tier after it, and returns None only when every tier
\* that applies to the text was consulted and gave nothing.
C23_TierOrder ==
    [][\A p \in RouteClients, location \in Places, geocode \in Geocodes :
          GeocodeLocation(p, location, geocode) =>
              LET found == ret'.value.found
                  tiers == << location \o <<",", "India">>,
                              location,
                              location \o <<",", "Gujarat", ",", "India">> >>
                  n == Len(found.lookups)
              IN  /\ Returned(ret', "geocode_location")
                  /\ 1 <= n /\ n <= ApplicableLookups(location)
                  /\ found.lookups = SubSeq(tiers, 1, n)
                  /\ \A i \in 1..(n - 1) : geocode[i].kind # "hit"
                  /\ found.area_table =>
                        (n = 3 /\ geocode[3].kind # "hit")
                  /\ found.value # NoCoords =>
                        \/ /\ geocode[n].kind = "hit"
                           /\ found.value = geocode[n].at
                        \/ /\ found.area_table
                           /\ found.value = _get_ahmedabad_coordinates(location)
                  /\ found.value = NoCoords =>
                        /\ n = ApplicableLookups(location)
                        /\ \A i \in 1..n : geocode[i].kind # "hit"
                        /\ n = 3 => found.area_table]_vars

\* The bookings stored for a route key.
BookingsOfKey(key) == { b \in DOMAIN bookings : route_key(bookings[b]) = key }

\* The largest fare a caller hands to select_route.
MaxFare == Max({ offer.pricing.final_fare : offer \in Offers })

\* C24: a booking is counted in the ledger at most once, however often
\* select_route is called for its id: total_bookings is at most the number of
\* bookings stored, total_revenue at most one fare for each of them, and a
\* route entry counts at most the bookings of its key.
C24_CountedOnce ==
    /\ Ledger.total_bookings <= Cardinality(DOMAIN bookings)
    /\ Ledger.total_revenue <= MaxFare * Cardinality(DOMAIN bookings)
    /\ \A key \in RouteKeys(Ledger) :
          RouteBookings(Ledger, key) <= Cardinality(BookingsOfKey(key))

\* C25: a booking goes from pending to confirmed or from pending to
\* cancelled and no further: no step confirms a cancelled booking or cancels
\* a confirmed one, and no select_route adds to the ledger a booking it found
\* cancelled.
C25_StatusTransitions ==
    [][/\ \A b \in DOMAIN bookings :
             /\ bookings[b].status = "cancelled" => bookings'[b].status = "cancelled"
             /\ bookings[b].status = "confirmed" => bookings'[b].status = "confirmed"
       /\ \A p \in Clients :
             SelectRouteReturnsTrue(p) => call[p].booking.status # "cancelled"]_vars

\* The bookings whose stored status is 'confirmed'.
ConfirmedBookings == { b \in DOMAIN bookings : bookings[b].status = "confirmed" }

\* C26: whenever no select_route call is in progress -- also after one has
\* failed or the process has stopped in the middle of one -- the ledger's
\* total_bookings is the number of bookings stored as confirmed.
C26_LedgerInStep ==
    (\A p \in Clients : ~InSelect(p)) =>
        Ledger.total_bookings = Cardinality(ConfirmedBookings)

C28_DistinctIds ==
    [][\A p \in Clients, trip \in Trips :
          CreateBooking(p, trip) =>
              /\ Returned(ret', "create_booking")
              /\ ret'.value \notin DOMAIN bookings
              /\ DOMAIN bookings' = DOMAIN bookings \cup {ret'.value}
              /\ bookings'[ret'.value].status = "pending"
              /\ bookings'[ret'.value].origin = trip.origin
              /\ bookings'[ret'.value].destination = trip.destination
              /\ \A b \in DOMAIN bookings : bookings'[b] = bookings[b]]_vars

\* C29: the real_distance_km of a suggest_routes result is the base distance
\* of its two routes: the fast route's distance_km is round(real_distance_km
\* x 1.1, 1) and the scenic route's round(real_distance_km x 1.3, 1),
\* whatever the provider answers and whatever the fallback draws.
C29_RealDistanceIsBase ==
    Returned(ret, "suggest_routes") =>
        LET result == ret.value.result
        IN  /\ result.routes[1].distance_km \in round(result.real_distance_km * 11, 100)
            /\ result.routes[2].distance_km \in round(result.real_distance_km * 13, 100)

\* The (origin, destination) pairs of the bookings stored as confirmed.
ConfirmedPairs ==
    { <<bookings[b].origin, bookings[b].destination>> : b \in ConfirmedBookings }

\* C30: a route key stands for one (origin, destination) pair: two stored
\* bookings have the same key "{origin}_to_{destination}" exactly when they
\* have the same origin and the same destination, and once the confirmations
\* are done the ledger has one entry for each pair confirmed, the reverse
\* direction being a pair of its own.
C30_RouteKeysUnambiguous ==
    /\ \A b1 \in DOMAIN bookings, b2 \in DOMAIN bookings :
          route_key(bookings[b1]) = route_key(bookings[b2])
              <=> ( /\ bookings[b1].origin = bookings[b2].origin
                    /\ bookings[b1].destination = bookings[b2].destination )
    /\ (\A p \in Clients : ~InSelect(p)) =>
          Cardinality(RouteKeys(Ledger)) = Cardinality(ConfirmedPairs)

====
